---- MODULE Spec2Model ----
(***************************************************************************)
(* Register decoders (src/src/lib.rs, emmc.rs) and command encoder         *)
(* (src/src/cmd.rs) of sdio-host.                                          *)
(*                                                                         *)
(* Machine integers are wider than the model checker's integers, so an     *)
(* unsigned integer is represented by the set of the positions of its set  *)
(* bits (bit 0 = least significant). {} is 0, {0} is 1, {3, 0} is 9.       *)
(* Shifts, masks and casts act on positions; + and * are carried out bit   *)
(* by bit, and a result is cut to the width of its Rust type, with the     *)
(* overflow reported.                                                      *)
(***************************************************************************)
EXTENDS Integers, Sequences, FiniteSets, TLC

VARIABLES
    words,            \* the raw buffer handed over by the host controller
    reg,              \* the register built from it
    ret,              \* what the last accessor call returned
    overflow_checks,  \* the build: TRUE panics on overflow, FALSE wraps
    built,            \* the last command a builder returned, with its call
    first,            \* observer: the first result of each accessor on reg
    held,             \* a register decoded earlier and kept by the caller
    observing         \* whether the observer records the results

vars == <<words, reg, ret, overflow_checks, built, first, held, observing>>

(***************************************************************************)
(* Bounds of the model.                                                    *)
(***************************************************************************)
\* Multi-bit fields take the EdgeSpan + 1 lowest and the EdgeSpan + 1
\* highest values of their range.
EdgeSpan == 1

(***************************************************************************)
(* Unsigned integers as sets of bit positions.                             *)
(***************************************************************************)
Pow2(n) == 2 ^ n

\* A model-checker integer (below 2^31) as a bit set.
FromInt(n) == {i \in 0..30 : (n \div Pow2(i)) % 2 = 1}

\* A bit set below 2^31 as a model-checker integer.
ToInt(S) ==
    LET f[i \in 0..31] == IF i = 31 THEN 0
                          ELSE (IF i \in S THEN Pow2(i) ELSE 0) + f[i + 1]
    IN  f[0]

\* x >> k
Shr(S, k) == {i - k : i \in {j \in S : j >= k}}

\* x << k, before the cut to the type's width
Shl(S, k) == {i + k : i \in S}

\* x as uW: the low W bits
Trunc(S, w) == {i \in S : i < w}

\* Does x fit in W bits?
Fits(S, w) == \A i \in S : i < w

\* x + y, unbounded: xor plus the carries, until no carry is left
RECURSIVE Add(_, _)
Add(A, B) ==
    IF B = {} THEN A
    ELSE Add((A \ B) \cup (B \ A), Shl(A \cap B, 1))

\* x * y, unbounded: the sum of x << i over the set bits i of y
RECURSIVE Mul(_, _)
Mul(A, B) ==
    IF B = {} THEN {}
    ELSE LET i == CHOOSE j \in B : \A k \in B : j <= k
         IN  Add(Shl(A, i), Mul(A, B \ {i}))

\* The bits [hi:lo] of x, moved down to bit 0
Field(S, hi, lo) == Shr({i \in S : i <= hi}, lo)

(***************************************************************************)
(* Results of the accessors. tag is "value" for a returned value, "None"   *)
(* and "Some" for an Option, "panic" for an arithmetic-overflow panic of a *)
(* build with overflow checks.                                             *)
(***************************************************************************)
Ret(fn, tag, val) == [fn |-> fn, tag |-> tag, val |-> val]

NoRet == Ret("none", "none", 0)

NoReg == [kind |-> "none", inner |-> {}, bytes |-> <<>>]

\* A register the caller keeps: its buffer, the register and the first
\* results of its accessors.
Held(w, r, f) == [words |-> w, reg |-> r, first |-> f]

NoHeld == Held(<<>>, NoReg, {})

\* The observer: the first result r of an accessor joins the results f
\* recorded for the register; a later result of the same accessor does not.
Observe(f, r) ==
    IF observing /\ ~(\E e \in f : e.fn = r.fn) THEN f \cup {r} ELSE f

(***************************************************************************)
(* OCR (lib.rs 139-191)                                                    *)
(***************************************************************************)
OCR_new(word) == [kind |-> "OCR", inner |-> word, bytes |-> <<>>]

\* first loop of voltage_window_mv: skip the unset low bits
RECURSIVE SkipLow(_, _)
SkipLow(window, min) ==
    IF 0 \notin window /\ window # {}
    THEN SkipLow(Shr(window, 1), min + 100)
    ELSE <<window, min>>

\* second loop of voltage_window_mv: advance max until window is 0
RECURSIVE AdvanceMax(_, _)
AdvanceMax(window, max) ==
    IF window # {}
    THEN AdvanceMax(Shr(window, 1), max + 100)
    ELSE max
\* voltage_window_mv with a mask one bit too wide (0x3FF for 0x1FF)
voltage_window_mv_wide(ocr) ==
    LET window0 == Shr(ocr.inner, 15) \cap FromInt(1023)
        lo      == SkipLow(window0, 2700)
        min     == lo[2]
        max     == AdvanceMax(lo[1], min)
    IN  IF max = min
        THEN Ret("voltage_window_mv", "None", <<0, 0>>)
        ELSE Ret("voltage_window_mv", "Some", <<min, max>>)


voltage_window_mv(ocr) ==
    LET window0 == Shr(ocr.inner, 15) \cap FromInt(511)
        lo      == SkipLow(window0, 2700)
        min     == lo[2]
        max     == AdvanceMax(lo[1], min)
    IN  IF max = min
        THEN Ret("voltage_window_mv", "None", <<0, 0>>)
        ELSE Ret("voltage_window_mv", "Some", <<min, max>>)

\* high_capacity latched in state shared by all registers: once a card
\* reported high capacity, every later call does
high_capacity_latched(ocr) ==
    (ocr.inner \cap {30}) # {} \/ (ret.fn = "high_capacity" /\ ret.val)

high_capacity(ocr) == (ocr.inner \cap {30}) # {}

\* is_busy reading bit 31 as active high
is_busy_active_high(ocr) == (ocr.inner \cap {31}) # {}


is_busy(ocr) == (ocr.inner \cap {31}) = {}

(***************************************************************************)
(* CSD (lib.rs 341-434)                                                    *)
(***************************************************************************)
\* From<[u32; 4]>: little endian words into one u128
U128_from_words(w) ==
    Shl(w[4], 96) \cup Shl(w[3], 64) \cup Shl(w[2], 32) \cup w[1]

CSD_new(w) == [kind |-> "CSD", inner |-> U128_from_words(w), bytes |-> <<>>]

\* (self.0 >> 126) as u8 & 3
CSD_version(csd) == ToInt(Trunc(Shr(csd.inner, 126), 8) \cap FromInt(3))

block_length(csd) ==
    LET len == ToInt(Shr(csd.inner, 80) \cap FromInt(15))
    IN  CASE len = 9  -> "B512"
          [] len = 10 -> "B1024"
          [] len = 11 -> "B2048"
          [] OTHER    -> "Unknown"

\* BlockSize as u64: the discriminant of the variant
BlockSize_discriminant(bs) ==
    CASE bs = "B512"  -> 9
      [] bs = "B1024" -> 10
      [] bs = "B2048" -> 11
      [] OTHER        -> 0

\* a * b in a type of the given width: a panic with overflow checks,
\* the low bits without
CheckedMul(fn, a, b, width, checks) ==
    LET p == Mul(a, b)
    IN  IF Fits(p, width) THEN Ret(fn, "value", p)
        ELSE IF checks THEN Ret(fn, "panic", {})
        ELSE Ret(fn, "value", Trunc(p, width))

block_count(csd, checks) ==
    LET v == CSD_version(csd)
    IN  CASE v = 0 ->
               LET c_size      == Trunc(Shr(csd.inner, 62), 16) \cap FromInt(4095)
                   c_size_mult == Trunc(Shr(csd.inner, 47), 8) \cap FromInt(7)
               IN  CheckedMul("block_count", Add(c_size, {0}),
                              Shl({0}, ToInt(Add(c_size_mult, {1}))), 32, checks)
          [] v = 1 ->
               CheckedMul("block_count",
                          Add(Trunc(Shr(csd.inner, 48), 32) \cap FromInt(4194303), {0}),
                          FromInt(1024), 32, checks)
          [] v = 2 ->
               CheckedMul("block_count",
                          Add(Trunc(Shr(csd.inner, 48), 32) \cap FromInt(268435455), {0}),
                          FromInt(1024), 32, checks)
          [] OTHER -> Ret("block_count", "value", {})

card_size(csd, checks) ==
    LET block_size_bytes == Shl({0}, BlockSize_discriminant(block_length(csd)))
        blocks           == block_count(csd, checks)
    IN  IF blocks.tag = "panic" THEN Ret("card_size", "panic", {})
        ELSE CheckedMul("card_size", blocks.val, block_size_bytes, 64, checks)

(***************************************************************************)
(* SCR (lib.rs 287-330)                                                    *)
(***************************************************************************)
\* From<[u32; 2]>: little endian words into one u64
SCR_new(w) == [kind |-> "SCR", inner |-> Shl(w[2], 32) \cup w[1], bytes |-> <<>>]

\* version() with the rows of 5.0 to 7.0 not looking at SD_SPEC3
SCR_version_no_spec3(scr) ==
    LET spec  == ToInt(Shr(scr.inner, 56) \cap FromInt(15))
        spec3 == ToInt(Shr(scr.inner, 47) \cap FromInt(1))
        spec4 == ToInt(Shr(scr.inner, 42) \cap FromInt(1))
        specx == ToInt(Shr(scr.inner, 38) \cap FromInt(15))
        t     == <<spec, spec3, spec4, specx>>
    IN  CASE t = <<0, 0, 0, 0>> -> "V1_0"
          [] t = <<1, 0, 0, 0>> -> "V1_10"
          [] t = <<2, 0, 0, 0>> -> "V2"
          [] t = <<2, 1, 0, 0>> -> "V3"
          [] t = <<2, 1, 1, 0>> -> "V4"
          [] spec = 2 /\ specx = 1 -> "V5"
          [] spec = 2 /\ specx = 2 -> "V6"
          [] spec = 2 /\ specx = 3 -> "V7"
          [] OTHER -> "Unknown"


SCR_version(scr) ==
    LET spec  == ToInt(Shr(scr.inner, 56) \cap FromInt(15))
        spec3 == ToInt(Shr(scr.inner, 47) \cap FromInt(1))
        spec4 == ToInt(Shr(scr.inner, 42) \cap FromInt(1))
        specx == ToInt(Shr(scr.inner, 38) \cap FromInt(15))
        t     == <<spec, spec3, spec4, specx>>
    IN  CASE t = <<0, 0, 0, 0>> -> "V1_0"
          [] t = <<1, 0, 0, 0>> -> "V1_10"
          [] t = <<2, 0, 0, 0>> -> "V2"
          [] t = <<2, 1, 0, 0>> -> "V3"
          [] t = <<2, 1, 1, 0>> -> "V4"
          [] spec = 2 /\ spec3 = 1 /\ specx = 1 -> "V5"
          [] spec = 2 /\ spec3 = 1 /\ specx = 2 -> "V6"
          [] spec = 2 /\ spec3 = 1 /\ specx = 3 -> "V7"
          [] OTHER -> "Unknown"

(***************************************************************************)
(* CID (lib.rs 215-273)                                                    *)
(***************************************************************************)
\* the bytes of the value the least significant first (to_le_bytes)
to_le_bytes(inner) ==
    [k \in 1..16 |-> ToInt(Field(inner, 8 * (k - 1) + 7, 8 * (k - 1)))]

\* u128::to_be_bytes: the most significant byte first
to_be_bytes(inner) ==
    [k \in 1..16 |-> ToInt(Field(inner, 127 - 8 * (k - 1), 120 - 8 * (k - 1)))]

\* From<u128>
CID_from_u128(inner) == [kind |-> "CID", inner |-> inner, bytes |-> to_be_bytes(inner)]

\* From<[u32; 4]>
CID_new(w) == CID_from_u128(U128_from_words(w))

\* &bytes[from..to] of Rust (from inclusive, to exclusive, counted from 0)
Slice(bytes, from, to) == SubSeq(bytes, from + 1, to)

Continuation(b) == b >= 128 /\ b <= 191

\* str::from_utf8(..).is_ok(): the well-formed UTF-8 byte sequences
RECURSIVE Utf8Valid(_)
Utf8Valid(s) ==
    IF s = <<>> THEN TRUE
    ELSE LET b == s[1]
             n == Len(s)
             rest(k) == SubSeq(s, k + 1, n)
         IN  CASE b <= 127 -> Utf8Valid(rest(1))
               [] b >= 194 /\ b <= 223 ->
                    n >= 2 /\ Continuation(s[2]) /\ Utf8Valid(rest(2))
               [] b >= 224 /\ b <= 239 ->
                    /\ n >= 3
                    /\ Continuation(s[2]) /\ Continuation(s[3])
                    /\ (b = 224 => s[2] >= 160)
                    /\ (b = 237 => s[2] <= 159)
                    /\ Utf8Valid(rest(3))
               [] b >= 240 /\ b <= 244 ->
                    /\ n >= 4
                    /\ Continuation(s[2]) /\ Continuation(s[3]) /\ Continuation(s[4])
                    /\ (b = 240 => s[2] >= 144)
                    /\ (b = 244 => s[2] <= 143)
                    /\ Utf8Valid(rest(4))
               [] OTHER -> FALSE

\* "<ERR>"
ERR == <<60, 69, 82, 82, 62>>

\* str::from_utf8(bytes).unwrap_or(&"<ERR>"): a string is its UTF-8 bytes
from_utf8_or_ERR(bytes) == IF Utf8Valid(bytes) THEN bytes ELSE ERR

manufacturer_id(cid) == cid.bytes[1]

oem_id(cid) == from_utf8_or_ERR(Slice(cid.bytes, 1, 3))
\* product_name over six bytes, the width of the eMMC product name
product_name_six(cid) == from_utf8_or_ERR(Slice(cid.bytes, 3, 9))


product_name(cid) == from_utf8_or_ERR(Slice(cid.bytes, 3, 8))

product_revision(cid) == cid.bytes[9]

\* (self.inner >> 24) as u32
serial(cid) == Trunc(Shr(cid.inner, 24), 32)

(***************************************************************************)
(* SD Status (lib.rs 450-514)                                              *)
(***************************************************************************)
\* inner: [u32; 16]; inner[k] of the source is inner[k + 1] here
SDStatus_new(w) == [kind |-> "SDStatus", inner |-> w, bytes |-> <<>>]

\* (self.inner[13] & 0xFF) as u16 | ((self.inner[12] >> 24) & 0xFF) as u16
erase_size(s) ==
    Trunc(s.inner[14] \cap FromInt(255), 16)
        \cup Trunc(Shr(s.inner[13], 24) \cap FromInt(255), 16)

(***************************************************************************)
(* eMMC CID (emmc.rs 17-74)                                                *)
(***************************************************************************)
\* CID<EMMC>: the fields inner and bytes, built as lib.rs builds its CID
EMMC_CID_new(w) ==
    [kind |-> "EMMC_CID", inner |-> U128_from_words(w),
     bytes |-> CID_from_u128(U128_from_words(w)).bytes]

\* enum DeviceType: the declared discriminants
DeviceType_discriminant(v) ==
    CASE v = "RemovableDevice" -> 0
      [] v = "BGA" -> 1
      [] v = "POP" -> 2
      [] v = "Unknown" -> 3

\* match self.bytes[1] & 0x3
device_type(cid) ==
    CASE cid.bytes[2] % 4 = 0 -> "RemovableDevice"
      [] cid.bytes[2] % 4 = 1 -> "BGA"
      [] cid.bytes[2] % 4 = 2 -> "POP"
      [] OTHER -> "POP"

\* month = (self.inner >> 8) as u8 & 0xF0; year = (self.inner >> 8) as u8 & 0x0F
EMMC_manufacturing_date(cid) ==
    LET month == Trunc(Shr(cid.inner, 8), 8) \cap FromInt(240)
        year  == Trunc(Shr(cid.inner, 8), 8) \cap FromInt(15)
    IN  <<ToInt(month), ToInt(year)>>

(***************************************************************************)
(* Commands (cmd.rs)                                                       *)
(***************************************************************************)
\* pub fn cmd<R: Resp>(cmd: u8, arg: u32) -> Cmd<R>; resp is the marker type R
cmd(c, arg, R) == [cmd |-> c, arg |-> arg, resp |-> R]

\* Resp::LENGTH: R48 unless the impl overrides it
LENGTH(R) ==
    CASE R = "Rz" -> "Zero"
      [] R = "R2" -> "R136"
      [] OTHER    -> "R48"

\* Cmd::response_len
response_len(c) == LENGTH(c.resp)

\* u32::from(b) of a bool
U32_from_bool(b) == IF b THEN {0} ELSE {}

\* x << k in u32: the bits shifted out are dropped
ShlU32(x, k) == Trunc(Shl(x, k), 32)

idle ==
    cmd(0, {}, "Rz")

all_send_cid ==
    cmd(2, {}, "R2")

send_relative_address ==
    cmd(3, {}, "R6")

cmd6(arg) ==
    cmd(6, arg, "R1")

select_card(rca) ==
    cmd(7, ShlU32(rca, 16), "R1")

\* send_if_cond without the mask of the voltage code
send_if_cond_unmasked(voltage, checkpattern) ==
    cmd(8, ShlU32(voltage, 8) \cup checkpattern, "R7")

send_if_cond(voltage, checkpattern) ==
    cmd(8, ShlU32(voltage \cap FromInt(15), 8) \cup checkpattern, "R7")

\* send_csd tagged with the short response R1
send_csd_R1(rca) ==
    cmd(9, ShlU32(rca, 16), "R1")

send_csd(rca) ==
    cmd(9, ShlU32(rca, 16), "R2")

send_cid(rca) ==
    cmd(10, ShlU32(rca, 16), "R2")

voltage_switch ==
    cmd(11, {}, "R1")

stop_transmission ==
    cmd(12, {}, "R1")

card_status(rca, task_status) ==
    cmd(13, ShlU32(rca, 16) \cup ShlU32(U32_from_bool(task_status), 15), "R1")

go_inactive_state(rca) ==
    cmd(15, ShlU32(rca, 16), "Rz")

set_block_length(blocklen) ==
    cmd(16, blocklen, "R1")

read_single_block(addr) ==
    cmd(17, addr, "R1")

read_multiple_blocks(addr) ==
    cmd(18, addr, "R1")

send_tuning_block(addr) ==
    cmd(19, addr, "R1")

speed_class_control(arg) ==
    cmd(20, arg, "R1")

address_extension(arg) ==
    cmd(22, arg, "R1")

set_block_count(blockcount) ==
    cmd(23, blockcount, "R1")

write_single_block(addr) ==
    cmd(24, addr, "R1")

write_multiple_blocks(addr) ==
    cmd(25, addr, "R1")

program_csd ==
    cmd(27, {}, "R1")

\* app_cmd with the opcode of CMD54
app_cmd_54(rca) ==
    cmd(54, ShlU32(rca, 16), "R1")

app_cmd(rca) ==
    cmd(55, ShlU32(rca, 16), "R1")

set_bus_width(bw4bit) ==
    cmd(6, IF bw4bit THEN FromInt(2) ELSE FromInt(0), "R1")

sd_status ==
    cmd(13, {}, "R1")

\* sd_send_op_cond without the mask of the voltage window
sd_send_op_cond_unmasked(host_high_capacity, xpc, s18r, voltage_window) ==
    cmd(41, ShlU32(U32_from_bool(host_high_capacity), 30)
            \cup ShlU32(U32_from_bool(xpc), 28)
            \cup ShlU32(U32_from_bool(s18r), 24)
            \cup voltage_window, "R3")

sd_send_op_cond(host_high_capacity, xpc, s18r, voltage_window) ==
    cmd(41, ShlU32(U32_from_bool(host_high_capacity), 30)
            \cup ShlU32(U32_from_bool(xpc), 28)
            \cup ShlU32(U32_from_bool(s18r), 24)
            \cup (voltage_window \cap FromInt(16777215)), "R3")

send_scr ==
    cmd(51, {}, "R1")

(***************************************************************************)
(* Input buffers                                                           *)
(***************************************************************************)
\* The values a field of the given width takes: the lowest and the highest.
Edge(width) ==
    {FromInt(v) : v \in 0..EdgeSpan}
        \cup {(0..(width - 1)) \ FromInt(v) : v \in 0..EdgeSpan}

\* OCR words: every voltage window, with the flag bits and the neighbours
\* of the window set or clear.
OcrInputs ==
    {<<w \cup n>> : w \in SUBSET (15..23),
                    n \in (SUBSET {30, 31}) \cup {{14, 24}, (0..31) \ (15..23)}}

\* The words of a value, least significant word first.
WordsOf(V, n) == [j \in 1..n |-> Field(V, 32 * j - 1, 32 * (j - 1))]

\* CSD buffers: every structure version and READ_BL_LEN, with the body either
\* a 22-bit or 28-bit field at bit 48 (the layouts of versions 1 and 2) or a
\* 12-bit field at bit 62 and a 3-bit field at bit 47 (the layout of
\* version 0); the first kind also with every other bit of the register set.
CsdBodies22 ==
    {Shl(c, 48) \cup n : c \in Edge(22) \cup Edge(28),
                         n \in {{}, (0..125) \ ((47..75) \cup (80..83))}}

CsdBodies12 ==
    {Shl(c, 62) \cup Shl(FromInt(m), 47) : c \in Edge(12), m \in 0..7}

\* The card of the test fixture: version 1, C_SIZE 14771.
CsdFixture == <<FromInt(171966712), FromInt(968064896),
                FromInt(1532559360), FromInt(1074659378)>>

CsdInputs ==
    {WordsOf(Shl(FromInt(v), 126) \cup Shl(FromInt(len), 80) \cup body, 4) :
        v \in 0..3, len \in 0..15, body \in CsdBodies22 \cup CsdBodies12}
        \cup {CsdFixture}

\* SCR buffers: every value of the four version fields, with every other bit
\* of the register set or clear.
ScrInputs ==
    {WordsOf(Shl(FromInt(spec), 56) \cup Shl(FromInt(spec3), 47)
                 \cup Shl(FromInt(spec4), 42) \cup Shl(FromInt(specx), 38) \cup n, 2) :
        spec \in 0..15, spec3 \in 0..1, spec4 \in 0..1, specx \in 0..15,
        n \in {{}, (0..63) \ ((56..59) \cup {47, 42} \cup (38..41))}}

\* A 128-bit value from its 16 bytes, the most significant first.
RECURSIVE U128_of_bytes(_)
U128_of_bytes(b) ==
    IF b = <<>> THEN {}
    ELSE Shl(FromInt(b[1]), 8 * (Len(b) - 1)) \cup U128_of_bytes(Tail(b))

\* The CID of the test fixture: manufacturer 1, "PA", "Y08AG".
CidFixture == <<1, 80, 65, 89, 48, 56, 65, 71, 19, 218, 161, 191, 244, 1, 37, 46>>

\* Bytes that start, continue or break a UTF-8 sequence, control characters
\* and printable characters.
TextBytes == {0, 31, 32, 65, 126, 127, 128, 159, 160, 191, 192, 193, 194, 223,
              224, 237, 239, 240, 244, 245, 255}

\* Five-byte fields: UTF-8 sequences of every length, well formed and not, at
\* the start of the field and cut off by its end.
TextChunks ==
    {<<65>>, <<0>>, <<127>>, <<128>>, <<255>>, <<194>>, <<194, 169>>, <<192, 128>>,
     <<193, 191>>, <<223, 191>>, <<194, 65>>, <<224, 160, 128>>, <<224, 159, 191>>,
     <<237, 159, 191>>, <<237, 160, 128>>, <<239, 191, 191>>, <<226, 130>>,
     <<240, 144, 128, 128>>, <<240, 143, 191, 191>>, <<244, 143, 191, 191>>,
     <<244, 144, 128, 128>>, <<245, 128, 128, 128>>, <<240, 159, 152>>,
     <<60, 69, 82, 82, 62>>}

Pad(n) == [i \in 1..n |-> 65]

NameFields ==
    {c \o Pad(5 - Len(c)) : c \in TextChunks} \cup {Pad(5 - Len(c)) \o c : c \in TextChunks}

\* CID buffers: the fixture with its OEM id or its product name replaced, and
\* the fixture with every byte inverted.
CidInputs ==
    {WordsOf(U128_of_bytes(b), 4) :
        b \in {<<CidFixture[1], x, y>> \o SubSeq(CidFixture, 4, 16) : x, y \in TextBytes}
              \cup {SubSeq(CidFixture, 1, 3) \o nm \o SubSeq(CidFixture, 9, 16) :
                       nm \in NameFields}
              \cup {[k \in 1..16 |-> 255 - CidFixture[k]]}}

\* eMMC CID buffers: the fixture and the all-zero CID with every device type
\* in byte 1 and a manufacturing date in byte 14.
MdtBytes == {0, 1, 15, 16, 37, 240, 255}

EmmcCidInputs ==
    {WordsOf(U128_of_bytes(<<base[1], base[2] - (base[2] % 4) + cbx>>
                               \o SubSeq(base, 3, 14) \o <<mdt, base[16]>>), 4) :
        base \in {CidFixture, [k \in 1..16 |-> 0]}, cbx \in 0..3, mdt \in MdtBytes}

\* SD Status buffers: the two bytes of the erase size, with every other bit
\* of the buffer set or clear.
SdStatusInputs ==
    {[k \in 1..16 |-> IF k = 13 THEN Shl(lo, 24) \cup (n \cap (0..23))
                      ELSE IF k = 14 THEN hi \cup (n \cap (8..31))
                      ELSE n] :
        lo \in Edge(8), hi \in Edge(8), n \in {{}, 0..31}}

\* Buffers of four words are decoded as a CSD, as a CID and as an eMMC CID.
Inputs ==
    OcrInputs \cup CsdInputs \cup ScrInputs \cup CidInputs \cup EmmcCidInputs
        \cup SdStatusInputs

\* Arguments of the builders. A relative card address is a u16, a voltage
\* code and a check pattern are a u8; 0x1234, 0xAA and the voltage codes 1,
\* 15 and 16 are added to the lowest and highest values.
RcaInputs == Edge(16) \cup {FromInt(4660)}

U8Inputs == Edge(8) \cup {FromInt(170), FromInt(15), FromInt(16)}

U32Inputs == Edge(32) \cup {FromInt(512)}

\* Voltage windows: the window 0x00FF8000, and words with bits set at and
\* above the flags of ACMD41.
VoltageWindows == Edge(32) \cup {FromInt(16744448), {23}, {24}, {28}, {30}}

\* A call of a builder: its name, its command class (CMD or ACMD), its
\* arguments and the command it returned.
Built(fn, class, args, c) == [fn |-> fn, class |-> class, args |-> args, c |-> c]

NoBuilt == Built("none", "none", <<>>, cmd(0, {}, "none"))

(***************************************************************************)
(* The state machine: a buffer arrives, a register is built from it, and   *)
(* accessors are called on the register.                                   *)
(***************************************************************************)
Init ==
    /\ words \in Inputs
    /\ reg = NoReg
    /\ ret = NoRet
    /\ overflow_checks \in BOOLEAN
    /\ built = NoBuilt
    /\ first = {}
    /\ held = NoHeld
    /\ observing = FALSE

OCR_from ==
    /\ reg.kind = "none"
    /\ Len(words) = 1
    /\ reg' = OCR_new(words[1])
    /\ UNCHANGED <<words, ret, overflow_checks, built, first, held, observing>>

Call_voltage_window_mv ==
    /\ reg.kind = "OCR"
    /\ ret' = voltage_window_mv(reg)
    /\ first' = Observe(first, ret')
    /\ UNCHANGED <<words, reg, overflow_checks, built, held, observing>>

Call_high_capacity ==
    /\ reg.kind = "OCR"
    /\ ret' = Ret("high_capacity", "value", high_capacity(reg))
    /\ first' = Observe(first, ret')
    /\ UNCHANGED <<words, reg, overflow_checks, built, held, observing>>

Call_is_busy ==
    /\ reg.kind = "OCR"
    /\ ret' = Ret("is_busy", "value", is_busy(reg))
    /\ first' = Observe(first, ret')
    /\ UNCHANGED <<words, reg, overflow_checks, built, held, observing>>

CSD_from ==
    /\ reg.kind = "none"
    /\ Len(words) = 4
    /\ reg' = CSD_new(words)
    /\ UNCHANGED <<words, ret, overflow_checks, built, first, held, observing>>

Call_CSD_version ==
    /\ reg.kind = "CSD"
    /\ ret' = Ret("CSD_version", "value", CSD_version(reg))
    /\ first' = Observe(first, ret')
    /\ UNCHANGED <<words, reg, overflow_checks, built, held, observing>>

Call_block_length ==
    /\ reg.kind = "CSD"
    /\ ret' = Ret("block_length", "value", block_length(reg))
    /\ first' = Observe(first, ret')
    /\ UNCHANGED <<words, reg, overflow_checks, built, held, observing>>

Call_block_count ==
    /\ reg.kind = "CSD"
    /\ ret' = block_count(reg, overflow_checks)
    /\ first' = Observe(first, ret')
    /\ UNCHANGED <<words, reg, overflow_checks, built, held, observing>>

Call_card_size ==
    /\ reg.kind = "CSD"
    /\ ret' = card_size(reg, overflow_checks)
    /\ first' = Observe(first, ret')
    /\ UNCHANGED <<words, reg, overflow_checks, built, held, observing>>

SCR_from ==
    /\ reg.kind = "none"
    /\ Len(words) = 2
    /\ reg' = SCR_new(words)
    /\ UNCHANGED <<words, ret, overflow_checks, built, first, held, observing>>

Call_SCR_version ==
    /\ reg.kind = "SCR"
    /\ ret' = Ret("SCR_version", "value", SCR_version(reg))
    /\ first' = Observe(first, ret')
    /\ UNCHANGED <<words, reg, overflow_checks, built, held, observing>>

CID_from ==
    /\ reg.kind = "none"
    /\ Len(words) = 4
    /\ reg' = CID_new(words)
    /\ UNCHANGED <<words, ret, overflow_checks, built, first, held, observing>>

Call_manufacturer_id ==
    /\ reg.kind = "CID"
    /\ ret' = Ret("manufacturer_id", "value", manufacturer_id(reg))
    /\ first' = Observe(first, ret')
    /\ UNCHANGED <<words, reg, overflow_checks, built, held, observing>>

Call_oem_id ==
    /\ reg.kind = "CID"
    /\ ret' = Ret("oem_id", "value", oem_id(reg))
    /\ first' = Observe(first, ret')
    /\ UNCHANGED <<words, reg, overflow_checks, built, held, observing>>

Call_product_name ==
    /\ reg.kind = "CID"
    /\ ret' = Ret("product_name", "value", product_name(reg))
    /\ first' = Observe(first, ret')
    /\ UNCHANGED <<words, reg, overflow_checks, built, held, observing>>

Call_product_revision ==
    /\ reg.kind = "CID"
    /\ ret' = Ret("product_revision", "value", product_revision(reg))
    /\ first' = Observe(first, ret')
    /\ UNCHANGED <<words, reg, overflow_checks, built, held, observing>>

Call_serial ==
    /\ reg.kind = "CID"
    /\ ret' = Ret("serial", "value", serial(reg))
    /\ first' = Observe(first, ret')
    /\ UNCHANGED <<words, reg, overflow_checks, built, held, observing>>

SDStatus_from ==
    /\ reg.kind = "none"
    /\ Len(words) = 16
    /\ reg' = SDStatus_new(words)
    /\ UNCHANGED <<words, ret, overflow_checks, built, first, held, observing>>

Call_erase_size ==
    /\ reg.kind = "SDStatus"
    /\ ret' = Ret("erase_size", "value", erase_size(reg))
    /\ first' = Observe(first, ret')
    /\ UNCHANGED <<words, reg, overflow_checks, built, held, observing>>

EMMC_CID_from ==
    /\ reg.kind = "none"
    /\ Len(words) = 4
    /\ reg' = EMMC_CID_new(words)
    /\ UNCHANGED <<words, ret, overflow_checks, built, first, held, observing>>

Call_device_type ==
    /\ reg.kind = "EMMC_CID"
    /\ ret' = Ret("device_type", "value", device_type(reg))
    /\ first' = Observe(first, ret')
    /\ UNCHANGED <<words, reg, overflow_checks, built, held, observing>>

Call_EMMC_manufacturing_date ==
    /\ reg.kind = "EMMC_CID"
    /\ ret' = Ret("EMMC_manufacturing_date", "value", EMMC_manufacturing_date(reg))
    /\ first' = Observe(first, ret')
    /\ UNCHANGED <<words, reg, overflow_checks, built, held, observing>>

Next ==
    \/ OCR_from
    \/ Call_voltage_window_mv
    \/ Call_high_capacity
    \/ Call_is_busy
    \/ CSD_from
    \/ Call_CSD_version
    \/ Call_block_length
    \/ Call_block_count
    \/ Call_card_size
    \/ SCR_from
    \/ Call_SCR_version
    \/ CID_from
    \/ Call_manufacturer_id
    \/ Call_oem_id
    \/ Call_product_name
    \/ Call_product_revision
    \/ Call_serial
    \/ SDStatus_from
    \/ Call_erase_size
    \/ EMMC_CID_from
    \/ Call_device_type
    \/ Call_EMMC_manufacturing_date

Spec == Init /\ [][Next]_vars


(***************************************************************************)
(* Several registers: the caller keeps a decoded register (the registers   *)
(* are Copy), decodes the next response, and goes back to the one it kept. *)
(* The observer records the first result of every accessor on each         *)
(* register. Explored on a few buffers of every length.                    *)
(***************************************************************************)
\* Two OCR words (one of a high capacity card), an SCR, the CSD and the CID
\* of the fixture, and an SD Status buffer.
FrameInputs ==
    {<<{20, 31}>>, <<{20, 30}>>,
     WordsOf(Shl(FromInt(2), 56) \cup Shl(FromInt(1), 47), 2),
     CsdFixture,
     WordsOf(U128_of_bytes(CidFixture), 4),
     [k \in 1..16 |-> IF k = 14 THEN FromInt(1) ELSE {}]}

InitFrame ==
    /\ words \in FrameInputs
    /\ reg = NoReg
    /\ ret = NoRet
    /\ overflow_checks \in BOOLEAN
    /\ built = NoBuilt
    /\ first = {}
    /\ held = NoHeld
    /\ observing = TRUE

\* The next response arrives; the register decoded so far is kept.
Receive ==
    /\ reg.kind # "none"
    /\ held = NoHeld
    /\ held' = Held(words, reg, first)
    /\ words' \in FrameInputs
    /\ reg' = NoReg
    /\ first' = {}
    /\ UNCHANGED <<ret, overflow_checks, built, observing>>

\* The caller turns to the register it kept.
Swap ==
    /\ reg.kind # "none"
    /\ held # NoHeld
    /\ held' = Held(words, reg, first)
    /\ words' = held.words
    /\ reg' = held.reg
    /\ first' = held.first
    /\ UNCHANGED <<ret, overflow_checks, built, observing>>

NextFrame ==
    \/ Next
    \/ Receive
    \/ Swap

SpecFrame == InitFrame /\ [][NextFrame]_vars

(***************************************************************************)
(* The command encoder: it shares no state with the decoder, and is        *)
(* explored on its own, before any buffer has arrived.                     *)
(***************************************************************************)
InitCmd ==
    /\ words = <<>>
    /\ reg = NoReg
    /\ ret = NoRet
    /\ overflow_checks \in BOOLEAN
    /\ built = NoBuilt
    /\ first = {}
    /\ held = NoHeld
    /\ observing = FALSE

Calls_idle == {Built("idle", "CMD", <<>>, idle)}

Build_idle ==
    /\ built' \in Calls_idle
    /\ UNCHANGED <<words, reg, ret, overflow_checks, first, held, observing>>

Calls_all_send_cid == {Built("all_send_cid", "CMD", <<>>, all_send_cid)}

Build_all_send_cid ==
    /\ built' \in Calls_all_send_cid
    /\ UNCHANGED <<words, reg, ret, overflow_checks, first, held, observing>>

Calls_send_relative_address == {Built("send_relative_address", "CMD", <<>>, send_relative_address)}

Build_send_relative_address ==
    /\ built' \in Calls_send_relative_address
    /\ UNCHANGED <<words, reg, ret, overflow_checks, first, held, observing>>

Calls_cmd6 ==
    {Built("cmd6", "CMD", <<arg>>, cmd6(arg)) :
        arg \in U32Inputs}

Build_cmd6 ==
    /\ built' \in Calls_cmd6
    /\ UNCHANGED <<words, reg, ret, overflow_checks, first, held, observing>>

Calls_select_card ==
    {Built("select_card", "CMD", <<rca>>, select_card(rca)) :
        rca \in RcaInputs}

Build_select_card ==
    /\ built' \in Calls_select_card
    /\ UNCHANGED <<words, reg, ret, overflow_checks, first, held, observing>>

Calls_send_if_cond ==
    {Built("send_if_cond", "CMD", <<voltage, checkpattern>>, send_if_cond(voltage, checkpattern)) :
        voltage \in U8Inputs, checkpattern \in U8Inputs}

Build_send_if_cond ==
    /\ built' \in Calls_send_if_cond
    /\ UNCHANGED <<words, reg, ret, overflow_checks, first, held, observing>>

Calls_send_csd ==
    {Built("send_csd", "CMD", <<rca>>, send_csd(rca)) :
        rca \in RcaInputs}

Build_send_csd ==
    /\ built' \in Calls_send_csd
    /\ UNCHANGED <<words, reg, ret, overflow_checks, first, held, observing>>

Calls_send_cid ==
    {Built("send_cid", "CMD", <<rca>>, send_cid(rca)) :
        rca \in RcaInputs}

Build_send_cid ==
    /\ built' \in Calls_send_cid
    /\ UNCHANGED <<words, reg, ret, overflow_checks, first, held, observing>>

Calls_voltage_switch == {Built("voltage_switch", "CMD", <<>>, voltage_switch)}

Build_voltage_switch ==
    /\ built' \in Calls_voltage_switch
    /\ UNCHANGED <<words, reg, ret, overflow_checks, first, held, observing>>

Calls_stop_transmission == {Built("stop_transmission", "CMD", <<>>, stop_transmission)}

Build_stop_transmission ==
    /\ built' \in Calls_stop_transmission
    /\ UNCHANGED <<words, reg, ret, overflow_checks, first, held, observing>>

Calls_card_status ==
    {Built("card_status", "CMD", <<rca, task_status>>, card_status(rca, task_status)) :
        rca \in RcaInputs, task_status \in BOOLEAN}

Build_card_status ==
    /\ built' \in Calls_card_status
    /\ UNCHANGED <<words, reg, ret, overflow_checks, first, held, observing>>

Calls_go_inactive_state ==
    {Built("go_inactive_state", "CMD", <<rca>>, go_inactive_state(rca)) :
        rca \in RcaInputs}

Build_go_inactive_state ==
    /\ built' \in Calls_go_inactive_state
    /\ UNCHANGED <<words, reg, ret, overflow_checks, first, held, observing>>

Calls_set_block_length ==
    {Built("set_block_length", "CMD", <<blocklen>>, set_block_length(blocklen)) :
        blocklen \in U32Inputs}

Build_set_block_length ==
    /\ built' \in Calls_set_block_length
    /\ UNCHANGED <<words, reg, ret, overflow_checks, first, held, observing>>

Calls_read_single_block ==
    {Built("read_single_block", "CMD", <<addr>>, read_single_block(addr)) :
        addr \in U32Inputs}

Build_read_single_block ==
    /\ built' \in Calls_read_single_block
    /\ UNCHANGED <<words, reg, ret, overflow_checks, first, held, observing>>

Calls_read_multiple_blocks ==
    {Built("read_multiple_blocks", "CMD", <<addr>>, read_multiple_blocks(addr)) :
        addr \in U32Inputs}

Build_read_multiple_blocks ==
    /\ built' \in Calls_read_multiple_blocks
    /\ UNCHANGED <<words, reg, ret, overflow_checks, first, held, observing>>

Calls_send_tuning_block ==
    {Built("send_tuning_block", "CMD", <<addr>>, send_tuning_block(addr)) :
        addr \in U32Inputs}

Build_send_tuning_block ==
    /\ built' \in Calls_send_tuning_block
    /\ UNCHANGED <<words, reg, ret, overflow_checks, first, held, observing>>

Calls_speed_class_control ==
    {Built("speed_class_control", "CMD", <<arg>>, speed_class_control(arg)) :
        arg \in U32Inputs}

Build_speed_class_control ==
    /\ built' \in Calls_speed_class_control
    /\ UNCHANGED <<words, reg, ret, overflow_checks, first, held, observing>>

Calls_address_extension ==
    {Built("address_extension", "CMD", <<arg>>, address_extension(arg)) :
        arg \in U32Inputs}

Build_address_extension ==
    /\ built' \in Calls_address_extension
    /\ UNCHANGED <<words, reg, ret, overflow_checks, first, held, observing>>

Calls_set_block_count ==
    {Built("set_block_count", "CMD", <<blockcount>>, set_block_count(blockcount)) :
        blockcount \in U32Inputs}

Build_set_block_count ==
    /\ built' \in Calls_set_block_count
    /\ UNCHANGED <<words, reg, ret, overflow_checks, first, held, observing>>

Calls_write_single_block ==
    {Built("write_single_block", "CMD", <<addr>>, write_single_block(addr)) :
        addr \in U32Inputs}

Build_write_single_block ==
    /\ built' \in Calls_write_single_block
    /\ UNCHANGED <<words, reg, ret, overflow_checks, first, held, observing>>

Calls_write_multiple_blocks ==
    {Built("write_multiple_blocks", "CMD", <<addr>>, write_multiple_blocks(addr)) :
        addr \in U32Inputs}

Build_write_multiple_blocks ==
    /\ built' \in Calls_write_multiple_blocks
    /\ UNCHANGED <<words, reg, ret, overflow_checks, first, held, observing>>

Calls_program_csd == {Built("program_csd", "CMD", <<>>, program_csd)}

Build_program_csd ==
    /\ built' \in Calls_program_csd
    /\ UNCHANGED <<words, reg, ret, overflow_checks, first, held, observing>>

Calls_app_cmd ==
    {Built("app_cmd", "CMD", <<rca>>, app_cmd(rca)) :
        rca \in RcaInputs}

Build_app_cmd ==
    /\ built' \in Calls_app_cmd
    /\ UNCHANGED <<words, reg, ret, overflow_checks, first, held, observing>>

Calls_set_bus_width ==
    {Built("set_bus_width", "ACMD", <<bw4bit>>, set_bus_width(bw4bit)) :
        bw4bit \in BOOLEAN}

Build_set_bus_width ==
    /\ built' \in Calls_set_bus_width
    /\ UNCHANGED <<words, reg, ret, overflow_checks, first, held, observing>>

Calls_sd_status == {Built("sd_status", "ACMD", <<>>, sd_status)}

Build_sd_status ==
    /\ built' \in Calls_sd_status
    /\ UNCHANGED <<words, reg, ret, overflow_checks, first, held, observing>>

Calls_sd_send_op_cond ==
    {Built("sd_send_op_cond", "ACMD", <<host_high_capacity, xpc, s18r, voltage_window>>, sd_send_op_cond(host_high_capacity, xpc, s18r, voltage_window)) :
        host_high_capacity \in BOOLEAN, xpc \in BOOLEAN, s18r \in BOOLEAN, voltage_window \in VoltageWindows}

Build_sd_send_op_cond ==
    /\ built' \in Calls_sd_send_op_cond
    /\ UNCHANGED <<words, reg, ret, overflow_checks, first, held, observing>>

Calls_send_scr == {Built("send_scr", "ACMD", <<>>, send_scr)}

Build_send_scr ==
    /\ built' \in Calls_send_scr
    /\ UNCHANGED <<words, reg, ret, overflow_checks, first, held, observing>>

\* Every call of a builder the model makes.
Calls ==
    UNION {Calls_idle, Calls_all_send_cid, Calls_send_relative_address,
           Calls_cmd6, Calls_select_card, Calls_send_if_cond,
           Calls_send_csd, Calls_send_cid, Calls_voltage_switch,
           Calls_stop_transmission, Calls_card_status, Calls_go_inactive_state,
           Calls_set_block_length, Calls_read_single_block, Calls_read_multiple_blocks,
           Calls_send_tuning_block, Calls_speed_class_control, Calls_address_extension,
           Calls_set_block_count, Calls_write_single_block, Calls_write_multiple_blocks,
           Calls_program_csd, Calls_app_cmd, Calls_set_bus_width,
           Calls_sd_status, Calls_sd_send_op_cond, Calls_send_scr}

NextCmd ==
    \/ Build_idle
    \/ Build_all_send_cid
    \/ Build_send_relative_address
    \/ Build_cmd6
    \/ Build_select_card
    \/ Build_send_if_cond
    \/ Build_send_csd
    \/ Build_send_cid
    \/ Build_voltage_switch
    \/ Build_stop_transmission
    \/ Build_card_status
    \/ Build_go_inactive_state
    \/ Build_set_block_length
    \/ Build_read_single_block
    \/ Build_read_multiple_blocks
    \/ Build_send_tuning_block
    \/ Build_speed_class_control
    \/ Build_address_extension
    \/ Build_set_block_count
    \/ Build_write_single_block
    \/ Build_write_multiple_blocks
    \/ Build_program_csd
    \/ Build_app_cmd
    \/ Build_set_bus_width
    \/ Build_sd_status
    \/ Build_sd_send_op_cond
    \/ Build_send_scr

SpecCmd == InitCmd /\ [][NextCmd]_vars

(***************************************************************************)
(* The documented view of a buffer: the words are the digits, in base      *)
(* 2^32 and least significant first, of one unsigned integer, and a field  *)
(* is a bit range of that integer.                                         *)
(***************************************************************************)
RECURSIVE Aggregate(_)
Aggregate(w) ==
    IF w = <<>> THEN {}
    ELSE Add(w[1], Mul(Aggregate(Tail(w)), {32}))

\* The n bytes of a field, the most significant first.
BytesOf(F, n) == [k \in 1..n |-> ToInt(Field(F, 8 * (n - k) + 7, 8 * (n - k)))]

\* The structure version field, CSD bits [127:126].
CsdStructure == ToInt(Field(Aggregate(words), 127, 126))

(***************************************************************************)
(* CSD                                                                     *)
(***************************************************************************)
\* C1: every CSD buffer resolves to the structure version held by bits
\* [127:126], and with the unrecognized pattern 0b11 block_count and
\* card_size report an explicit failure or an empty result, never a number.
C1_UnrecognizedVersionFails ==
    reg.kind = "CSD" =>
        /\ ret.fn = "CSD_version" => ret.val = CsdStructure
        /\ (ret.fn \in {"block_count", "card_size"} /\ CsdStructure = 3)
               => ret.tag # "value"

\* C2: with structure version 1, block_count is (C_SIZE + 1) * 1024 for
\* every C_SIZE = bits [69:48], the largest included: the result is returned
\* and is never cut to 32 bits.
C2_BlockCountV1NeverWraps ==
    (reg.kind = "CSD" /\ ret.fn = "block_count" /\ CsdStructure = 1) =>
        /\ ret.tag = "value"
        /\ ret.val = Mul(Add(Field(Aggregate(words), 69, 48), {0}), FromInt(1024))

\* C3: with structure version 1, card_size is block_count * 512 whatever
\* READ_BL_LEN and the other bits of the register hold.
C3_CardSizeV1Is512PerBlock ==
    (reg.kind = "CSD" /\ ret.fn = "card_size" /\ CsdStructure = 1) =>
        LET blocks == block_count(reg, overflow_checks)
        IN  IF blocks.tag = "panic" THEN ret.tag = "panic"
            ELSE ret.tag = "value" /\ ret.val = Mul(blocks.val, FromInt(512))

\* C4: with structure version 0, block_count is
\* (C_SIZE + 1) * 2^(C_SIZE_MULT + 2) and card_size is
\* block_count * 2^READ_BL_LEN, for every value of C_SIZE = bits [73:62],
\* C_SIZE_MULT = bits [49:47] and READ_BL_LEN = bits [83:80].
C4_CapacityV0 ==
    (reg.kind = "CSD" /\ CsdStructure = 0) =>
        LET V      == Aggregate(words)
            blocks == Mul(Add(Field(V, 73, 62), {0}),
                          Shl({0}, ToInt(Field(V, 49, 47)) + 2))
        IN  /\ ret.fn = "block_count" => ret.tag = "value" /\ ret.val = blocks
            /\ ret.fn = "card_size" =>
                   /\ ret.tag = "value"
                   /\ ret.val = Mul(blocks, Shl({0}, ToInt(Field(V, 83, 80))))

(***************************************************************************)
(* OCR                                                                     *)
(***************************************************************************)
\* The bits [23:15] of the OCR word.
OcrWindow == words[1] \cap (15..23)

\* C5: voltage_window_mv is None exactly when no bit of [23:15] is set;
\* otherwise min is 2700 + 100 * (the number of unset bits of [23:15] below
\* the lowest set one); the bits outside [23:15] do not change the result.
C5_VoltageWindowMin ==
    (reg.kind = "OCR" /\ ret.fn = "voltage_window_mv") =>
        /\ (ret.tag = "None") <=> (OcrWindow = {})
        /\ OcrWindow # {} =>
               /\ ret.tag = "Some"
               /\ ret.val[1] = 2700 + 100 * Cardinality(
                      {i \in 15..23 : i \notin OcrWindow /\ \A j \in OcrWindow : i < j})
        /\ ret = voltage_window_mv(OCR_new(OcrWindow))

\* A window that starts three bands up, in a word whose neighbouring bits 14
\* and 24 are set.
C5_Witness ==
    /\ ret.fn = "voltage_window_mv"
    /\ ret.tag = "Some"
    /\ ret.val[1] = 3000
    /\ {14, 24} \subseteq words[1]

\* C6: max is min + 100 * (the length of the run of set bits that starts at
\* the lowest set bit): set bits above a gap do not extend the window.
C6_MaxIsContiguousRun ==
    (reg.kind = "OCR" /\ ret.fn = "voltage_window_mv" /\ OcrWindow # {}) =>
        LET lowest == CHOOSE i \in OcrWindow : \A j \in OcrWindow : i <= j
            run    == {i \in OcrWindow : \A j \in lowest..i : j \in OcrWindow}
        IN  /\ ret.tag = "Some"
            /\ ret.val[2] = ret.val[1] + 100 * Cardinality(run)

\* C7: is_busy is true exactly when bit 31 is 0 and high_capacity is true
\* exactly when bit 30 is 1, whatever the other bits hold.
C7_BusyAndCapacity ==
    reg.kind = "OCR" =>
        /\ ret.fn = "is_busy" => ret.val = (31 \notin words[1])
        /\ ret.fn = "high_capacity" => ret.val = (30 \in words[1])

\* A card still powering up that reports high capacity and a voltage window.
C7_Witness ==
    /\ ret.fn = "is_busy"
    /\ ret.val = TRUE
    /\ 30 \in words[1]
    /\ OcrWindow # {}

(***************************************************************************)
(* CID                                                                     *)
(***************************************************************************)
\* The bytes of the text field the last call read.
CidTextField ==
    IF ret.fn = "oem_id" THEN BytesOf(Field(Aggregate(words), 119, 104), 2)
    ELSE BytesOf(Field(Aggregate(words), 103, 64), 5)

\* A control character: below the space, or DEL.
HasControl(bytes) == \E k \in 1..Len(bytes) : bytes[k] < 32 \/ bytes[k] = 127

\* C8 as stated: oem_id and product_name never panic; they return the
\* sentinel when the field is not valid printable text and the field's
\* characters otherwise.
C8_SentinelUnlessPrintable ==
    (reg.kind = "CID" /\ ret.fn \in {"oem_id", "product_name"}) =>
        /\ ret.tag = "value"
        /\ ret.val = IF ~Utf8Valid(CidTextField) \/ HasControl(CidTextField)
                     THEN ERR ELSE CidTextField

\* C8 as amended: oem_id and product_name never panic; they return the
\* sentinel when the field is not well-formed UTF-8 and the field's
\* characters otherwise, control characters included.
C8_SentinelUnlessUtf8 ==
    (reg.kind = "CID" /\ ret.fn \in {"oem_id", "product_name"}) =>
        /\ ret.tag = "value"
        /\ ret.val = IF Utf8Valid(CidTextField) THEN CidTextField ELSE ERR

\* A product name that is not UTF-8, replaced by the sentinel.
C8_Witness ==
    /\ ret.fn = "product_name"
    /\ ~Utf8Valid(CidTextField)
    /\ CidTextField # ERR
    /\ ret.val = ERR

\* C9: the CID built from the words w is V = w[0] + w[1]*2^32 + w[2]*2^64 +
\* w[3]*2^96, and the accessors return manufacturer_id = V[127:120], OEM id
\* bytes = V[119:104], product name bytes = V[103:64], product_revision =
\* V[63:56], serial = V[55:24], from the byte view and the integer view alike.
C9_CidBitRanges ==
    reg.kind = "CID" =>
        LET V == Aggregate(words)
        IN  /\ reg.inner = V
            /\ ret.fn = "manufacturer_id" => ret.val = ToInt(Field(V, 127, 120))
            /\ Slice(reg.bytes, 1, 3) = BytesOf(Field(V, 119, 104), 2)
            /\ (ret.fn = "oem_id" /\ ret.val # ERR)
                   => ret.val = BytesOf(Field(V, 119, 104), 2)
            /\ Slice(reg.bytes, 3, 8) = BytesOf(Field(V, 103, 64), 5)
            /\ (ret.fn = "product_name" /\ ret.val # ERR)
                   => ret.val = BytesOf(Field(V, 103, 64), 5)
            /\ ret.fn = "product_revision" => ret.val = ToInt(Field(V, 63, 56))
            /\ ret.fn = "serial" => ret.val = Field(V, 55, 24)

\* The serial number 3668033524 (0xDAA1BFF4) of the fixture card.
C9_Witness ==
    /\ reg.kind = "CID"
    /\ ret.fn = "serial"
    /\ ret.val = U128_of_bytes(<<218, 161, 191, 244>>)
    /\ reg.bytes[1] = 1

(***************************************************************************)
(* SCR                                                                     *)
(***************************************************************************)
\* The table of the physical layer specification, by
\* (SD_SPEC, SD_SPEC3, SD_SPEC4, SD_SPECX).
ScrTable(t) ==
    CASE t = <<0, 0, 0, 0>> -> "V1_0"
      [] t = <<1, 0, 0, 0>> -> "V1_10"
      [] t = <<2, 0, 0, 0>> -> "V2"
      [] t = <<2, 1, 0, 0>> -> "V3"
      [] t = <<2, 1, 1, 0>> -> "V4"
      [] t \in {<<2, 1, 0, 1>>, <<2, 1, 1, 1>>} -> "V5"
      [] t \in {<<2, 1, 0, 2>>, <<2, 1, 1, 2>>} -> "V6"
      [] t \in {<<2, 1, 0, 3>>, <<2, 1, 1, 3>>} -> "V7"
      [] OTHER -> "Unknown"

\* The tuple of version fields of the SCR buffer.
ScrTuple ==
    LET V == Aggregate(words)
    IN  <<ToInt(Field(V, 59, 56)), ToInt(Field(V, 47, 47)),
          ToInt(Field(V, 42, 42)), ToInt(Field(V, 41, 38))>>

\* C10: version() is the table entry of (SD_SPEC = bits [59:56], SD_SPEC3 =
\* bit 47, SD_SPEC4 = bit 42, SD_SPECX = bits [41:38]) and Unknown for every
\* tuple outside the table, whatever the other bits hold.
C10_ScrVersionTable ==
    (reg.kind = "SCR" /\ ret.fn = "SCR_version") => ret.val = ScrTable(ScrTuple)

\* A tuple next to the row of 5.0 (SD_SPEC3 clear) that is not in the table.
C10_Witness ==
    /\ reg.kind = "SCR"
    /\ ret.fn = "SCR_version"
    /\ ScrTuple = <<2, 0, 1, 1>>
    /\ ret.val = "Unknown"

(***************************************************************************)
(* Commands                                                                *)
(***************************************************************************)
\* C11: the response shape of a command is fixed by the command alone: long
\* (136 bits) for CMD2, CMD9 and CMD10, none for CMD0 and CMD15, short
\* (48 bits) for every other builder, the application commands included,
\* whatever the arguments.
C11_ResponseShape ==
    built.fn # "none" =>
        response_len(built.c) =
            IF built.class = "CMD" /\ built.c.cmd \in {2, 9, 10} THEN "R136"
            ELSE IF built.class = "CMD" /\ built.c.cmd \in {0, 15} THEN "Zero"
            ELSE "R48"

\* CMD9 for a card address other than 0, with the long response.
C11_Witness ==
    /\ built.fn = "send_csd"
    /\ built.args[1] # {}
    /\ response_len(built.c) = "R136"

\* A flag as a number: 1 or 0.
Flag(b) == IF b THEN {0} ELSE {}

\* C12: select_card(rca) = (7, rca * 2^16); send_if_cond(voltage, pattern) =
\* (8, (voltage mod 16) * 2^8 + pattern), a voltage above 4 bits being cut,
\* not rejected; card_status(rca, t) = (13, rca * 2^16 + t * 2^15);
\* set_bus_width(b) = (6, 2 if b else 0); sd_send_op_cond(hc, xpc, s18r, vw)
\* = (41, hc * 2^30 + xpc * 2^28 + s18r * 2^24 + vw mod 2^24).
C12_ArgumentPacking ==
    LET a == built.args
        c == built.c
    IN  /\ built.fn = "select_card" =>
               c.cmd = 7 /\ c.arg = Mul(a[1], {16})
        /\ built.fn = "send_if_cond" =>
               c.cmd = 8 /\ c.arg = Add(Mul(Trunc(a[1], 4), {8}), a[2])
        /\ built.fn = "card_status" =>
               c.cmd = 13 /\ c.arg = Add(Mul(a[1], {16}), Mul(Flag(a[2]), {15}))
        /\ built.fn = "set_bus_width" =>
               c.cmd = 6 /\ c.arg = (IF a[1] THEN {1} ELSE {})
        /\ built.fn = "sd_send_op_cond" =>
               /\ c.cmd = 41
               /\ c.arg = Add(Add(Add(Mul(Flag(a[1]), {30}), Mul(Flag(a[2]), {28})),
                                  Mul(Flag(a[3]), {24})),
                              Trunc(a[4], 24))

\* CMD8 with a voltage code that does not fit 4 bits and a check pattern.
C12_Witness ==
    /\ built.fn = "send_if_cond"
    /\ ~Fits(built.args[1], 4)
    /\ built.args[2] # {}

\* C13: the argument bits outside a command's fields are zero: bits [15:0]
\* for select_card, send_csd, send_cid, go_inactive_state and app_cmd; bits
\* [14:0] for card_status; bits [31:12] for send_if_cond; all but bit 1 for
\* set_bus_width; bits 31, 29 and [27:25] for sd_send_op_cond, whose bits 30,
\* 28 and 24 are its flags whatever voltage_window holds; the whole argument
\* for the builders without parameters.
C13_UnusedBitsZero ==
    LET a   == built.args
        arg == built.c.arg
    IN  /\ built.fn \in {"select_card", "send_csd", "send_cid",
                         "go_inactive_state", "app_cmd"} => arg \cap (0..15) = {}
        /\ built.fn = "card_status" => arg \cap (0..14) = {}
        /\ built.fn = "send_if_cond" => arg \cap (12..31) = {}
        /\ built.fn = "set_bus_width" => arg \subseteq {1}
        /\ built.fn = "sd_send_op_cond" =>
               /\ arg \cap ({31, 29} \cup (25..27)) = {}
               /\ (30 \in arg) = a[1]
               /\ (28 \in arg) = a[2]
               /\ (24 \in arg) = a[3]
        /\ (built.fn # "none" /\ a = <<>>) => arg = {}
        /\ Fits(arg, 32)

\* ACMD41 with no flag and every bit of voltage_window set.
C13_Witness ==
    /\ built.fn = "sd_send_op_cond"
    /\ built.args = <<FALSE, FALSE, FALSE, 0..31>>
    /\ built.c.arg = 0..23

\* The opcodes of the builders of a command class.
Opcodes(class) == {b.c.cmd : b \in {x \in Calls : x.class = class}}

\* C14 as stated: there is a builder for every standard command index in
\* {0, 2, 3, 6..13, 15..25, 27, 55} and every application command index in
\* {6, 13, 41, 51}, and every opcode of a builder fits 6 bits.
C14_EveryCommandHasBuilder ==
    /\ ({0, 2, 3} \cup (6..13) \cup (15..25) \cup {27, 55}) \subseteq Opcodes("CMD")
    /\ {6, 13, 41, 51} \subseteq Opcodes("ACMD")
    /\ built.c.cmd < 64

\* C14 as amended: there is a builder for every standard command index in
\* {0, 2, 3, 6..13, 15..20, 22..25, 27, 55}, none for CMD21, and for every
\* application command index in {6, 13, 41, 51}; every opcode of a builder
\* fits 6 bits.
C14_EveryCommandButCmd21 ==
    /\ ({0, 2, 3} \cup (6..13) \cup (15..20) \cup (22..25) \cup {27, 55})
           \subseteq Opcodes("CMD")
    /\ 21 \notin Opcodes("CMD")
    /\ {6, 13, 41, 51} \subseteq Opcodes("ACMD")
    /\ built.c.cmd < 64

\* CMD55, the highest index, built for the highest card address.
C14_Witness ==
    /\ built.fn = "app_cmd"
    /\ built.c.cmd = 55
    /\ built.args[1] = 0..15

(***************************************************************************)
(* SD Status                                                               *)
(***************************************************************************)
\* C16: erase_size() is the 16-bit field across words 12 and 13 of an SD
\* Status buffer: (word13 & 0xFF) * 256 + (word12 >> 24), which is bits
\* [423:408] of the 512-bit aggregate.
C16_EraseSizeStraddlesWords ==
    ret.fn = "erase_size" =>
        /\ ret.val = Add(Mul(words[14] \cap FromInt(255), {8}), Shr(words[13], 24))
        /\ ret.val = Field(Aggregate(words), 423, 408)

(***************************************************************************)
(* eMMC CID                                                                *)
(***************************************************************************)
\* C17: device_type() is the DeviceType variant whose discriminant is the CBX
\* field, the low two bits of CID byte 1 (bits [113:112]): 0 RemovableDevice,
\* 1 BGA, 2 POP, 3 Unknown.
C17_DeviceTypeIsCbx ==
    ret.fn = "device_type" =>
        /\ DeviceType_discriminant(ret.val) = reg.bytes[2] % 4
        /\ DeviceType_discriminant(ret.val) = ToInt(Field(Aggregate(words), 113, 112))

\* C18: manufacturing_date() of an eMMC CID is (month, year): month the upper
\* 4 bits of MDT (CID bits [15:8]), in 0..15, year the lower 4 bits.
C18_EmmcManufacturingDate ==
    ret.fn = "EMMC_manufacturing_date" =>
        LET MDT == ToInt(Field(Aggregate(words), 15, 8))
        IN  /\ ret.val = <<MDT \div 16, MDT % 16>>
            /\ ret.val[1] \in 0..15
            /\ ret.val[2] \in 0..15

====
